---- MODULE Spec2Model ----
(***************************************************************************)
(* Model of src/amfi/nav.py: the parser of the AMFI daily NAV text file.   *)
(*                                                                         *)
(* A Python str is a sequence of atoms.  An atom is either one character   *)
(* (";", "(", ")", " ", a letter) or an indivisible word holding no        *)
(* delimiter (a column label, a category marker, a field value, the line   *)
(* break).  str.split, the `in` substring test and the [:-1] slice are     *)
(* computed on that sequence.  A dict is a function whose DOMAIN is its    *)
(* key set (insertion order is not modelled).  Every invocation of         *)
(* parse_nav_file_lines is a process p with its own locals; pc[p] is the   *)
(* source line it stands on.                                               *)
(***************************************************************************)
EXTENDS Integers, Sequences, FiniteSets, TLC

VARIABLES pc, raw_data, nav_lines, curr_index, schema, parsed_funds,
          scheme_idx, scheme_type, scheme_sub_type, fund_house, exc, result

vars == <<pc, raw_data, nav_lines, curr_index, schema, parsed_funds,
          scheme_idx, scheme_type, scheme_sub_type, fund_house, exc, result>>

Procs == {1, 2}

(* ---------------------------- bounds ----------------------------------- *)
MaxRun == 2
MaxBlocks == 3

(* ------------------------ module-level tables -------------------------- *)
LINE_BREAK == "\r\n"

EMPTY_LINE == <<" ">>

FundFields ==
  {"SchemeCode", "SchemeName", "ISINDivPayoutGrowth", "ISINDivReinvestment",
   "NAV", "Date"}

DATACLASS_AMFI_NAMES_TRANSFORMS ==
  [k \in {<<"Scheme Code">>, <<"ISIN Div Payout/ ISIN Growth">>,
          <<"ISIN Div Reinvestment">>, <<"Scheme Name">>,
          <<"Net Asset Value">>, <<"Date">>} |->
     CASE k = <<"Scheme Code">> -> "SchemeCode"
       [] k = <<"ISIN Div Payout/ ISIN Growth">> -> "ISINDivPayoutGrowth"
       [] k = <<"ISIN Div Reinvestment">> -> "ISINDivReinvestment"
       [] k = <<"Scheme Name">> -> "SchemeName"
       [] k = <<"Net Asset Value">> -> "NAV"
       [] k = <<"Date">> -> "Date"]

SCHEME_TYPE_CLASSES == <<"Close Ended", "Open Ended", "Interval Fund Schemes">>

(* --------------------------- str and dict ------------------------------ *)
Min(a, b) == IF a < b THEN a ELSE b

(* sub in s *)
Contains(s, sub) == \E i \in 1..Len(s) : s[i] = sub

(* s.split(sep): the pieces of s between the occurrences of sep *)
Split(s, sep) ==
  LET at == {i \in 1..Len(s) : s[i] = sep}
      cut(k) == IF k = 0 THEN 0
                ELSE IF k = Cardinality(at) + 1 THEN Len(s) + 1
                ELSE CHOOSE i \in at : Cardinality({j \in at : j < i}) = k - 1
  IN  [k \in 1..(Cardinality(at) + 1) |->
         SubSeq(s, cut(k - 1) + 1, cut(k) - 1)]

(* s[:-1] *)
DropLast(s) == SubSeq(s, 1, Len(s) - 1)

EmptyDict == [k \in {} |-> {}]

(* d[k] = v *)
Put(d, k, v) == [x \in (DOMAIN d) \cup {k} |-> IF x = k THEN v ELSE d[x]]

(* a key seen again gets a fresh value *)
SetDefault_reset(d, k, v) == Put(d, k, v)

(* if k not in d: d[k] = v *)
SetDefault(d, k, v) == IF k \in DOMAIN d THEN d ELSE Put(d, k, v)

(* ------------------------- _parse_fund_string -------------------------- *)
Raise(e) == [ok |-> FALSE, exc |-> e]

Return(v) == [ok |-> TRUE, val |-> v]

(* the tokens taken in the field order of the Fund dataclass *)
FundDict_positional(sch, fund_info_raw) ==
  LET n == Min(Len(sch), Len(fund_info_raw))
      order == <<"SchemeCode", "SchemeName", "ISINDivPayoutGrowth",
                 "ISINDivReinvestment", "NAV", "Date">>
  IN  [f \in {order[i] : i \in 1..Min(n, Len(order))} |->
         fund_info_raw[CHOOSE i \in 1..Len(order) : order[i] = f]]

(* {TRANSFORMS[key]: val for key, val in zip(schema, fund_info_raw)} *)
FundDict(sch, fund_info_raw) ==
  LET n == Min(Len(sch), Len(fund_info_raw))
      T == DATACLASS_AMFI_NAMES_TRANSFORMS
      Last(f) == CHOOSE i \in 1..n :
                   T[sch[i]] = f /\ \A j \in (i + 1)..n : T[sch[j]] # f
  IN  [f \in {T[sch[i]] : i \in 1..n} |-> fund_info_raw[Last(f)]]

(* Fund(** fund_dict **): the dataclass constructor takes exactly its fields *)
Fund(fund_dict) ==
  IF DOMAIN fund_dict = FundFields THEN Return(fund_dict)
  ELSE Raise("TypeError")

parse_fund_string(sch, fund_str) ==
  LET fund_info_raw == Split(fund_str, ";")
      n == Min(Len(sch), Len(fund_info_raw))
  IN  IF \E i \in 1..n : sch[i] \notin DOMAIN DATACLASS_AMFI_NAMES_TRANSFORMS
      THEN Raise("KeyError")
      ELSE Fund(FundDict(sch, fund_info_raw))

(* ------------------------------ locals --------------------------------- *)
Unbound == <<"<unbound>">>

curr_line(p) == nav_lines[p][curr_index[p] + 1]

IsLast(p) == curr_index[p] = Len(nav_lines[p]) - 1

(* only the first scheme class ends the organization loop *)
NoSchemeClass_first(line) == ~Contains(line, SCHEME_TYPE_CLASSES[1])

(* all(scheme_class not in curr_line() for scheme_class in ...) *)
NoSchemeClass(line) ==
  \A k \in 1..Len(SCHEME_TYPE_CLASSES) : ~Contains(line, SCHEME_TYPE_CLASSES[k])

Goto(p, l) == pc' = [pc EXCEPT ![p] = l]

RaiseAt(p, e) == /\ pc' = [pc EXCEPT ![p] = "error"]
                 /\ exc' = [exc EXCEPT ![p] = e]

(* the cursor is one module-level variable: every invocation's moves *)
next_line_shared(p, from, to) ==
  /\ pc[p] = from
  /\ curr_index' = [q \in Procs |-> curr_index[q] + 1]
  /\ IF curr_index[p] + 1 < Len(nav_lines[p])
     THEN Goto(p, to) /\ exc' = exc
     ELSE RaiseAt(p, "IndexError")
  /\ UNCHANGED <<raw_data, nav_lines, schema, parsed_funds, scheme_idx,
                 scheme_type, scheme_sub_type, fund_house, result>>

(* the cursor moves two lines at a time *)
next_line_twice(p, from, to) ==
  /\ pc[p] = from
  /\ curr_index' = [curr_index EXCEPT ![p] = @ + 2]
  /\ IF curr_index[p] + 2 < Len(nav_lines[p])
     THEN Goto(p, to) /\ exc' = exc
     ELSE RaiseAt(p, "IndexError")
  /\ UNCHANGED <<raw_data, nav_lines, schema, parsed_funds, scheme_idx,
                 scheme_type, scheme_sub_type, fund_house, result>>

(* next_line(): curr_index += 1; return nav_lines[curr_index] *)
next_line(p, from, to) ==
  /\ pc[p] = from
  /\ curr_index' = [curr_index EXCEPT ![p] = @ + 1]
  /\ IF curr_index[p] + 1 < Len(nav_lines[p])
     THEN Goto(p, to) /\ exc' = exc
     ELSE RaiseAt(p, "IndexError")
  /\ UNCHANGED <<raw_data, nav_lines, schema, parsed_funds, scheme_idx,
                 scheme_type, scheme_sub_type, fund_house, result>>

(* --------------------- parse_nav_file_lines, by line ------------------- *)
L93(p) ==
  /\ pc[p] = "L93"
  /\ LET lines == Split(raw_data[p], LINE_BREAK)
     IN  /\ nav_lines' = [nav_lines EXCEPT ![p] = lines]
         /\ schema' = [schema EXCEPT ![p] = Split(lines[1], ";")]
  /\ curr_index' = [curr_index EXCEPT ![p] = 0]
  /\ parsed_funds' = [parsed_funds EXCEPT ![p] = EmptyDict]
  /\ Goto(p, "L105")
  /\ UNCHANGED <<raw_data, scheme_idx, scheme_type, scheme_sub_type,
                 fund_house, exc, result>>

L105(p) == next_line(p, "L105", "L106")

L106(p) == next_line(p, "L106", "L108")

L108(p) ==
  /\ pc[p] = "L108"
  /\ IF curr_index[p] < Len(nav_lines[p]) /\ ~IsLast(p)
     THEN Goto(p, "L112") /\ scheme_idx' = [scheme_idx EXCEPT ![p] = 1]
     ELSE Goto(p, "L148") /\ scheme_idx' = scheme_idx
  /\ UNCHANGED <<raw_data, nav_lines, curr_index, schema, parsed_funds,
                 scheme_type, scheme_sub_type, fund_house, exc, result>>

(* the for statement: scheme_idx is the position of scheme_class *)
L112(p) ==
  /\ pc[p] = "L112"
  /\ IF scheme_idx[p] > Len(SCHEME_TYPE_CLASSES)
     THEN Goto(p, "L108") /\ scheme_idx' = scheme_idx
     ELSE IF Contains(curr_line(p), SCHEME_TYPE_CLASSES[scheme_idx[p]])
          THEN Goto(p, "L114") /\ scheme_idx' = scheme_idx
          ELSE pc' = pc /\ scheme_idx' = [scheme_idx EXCEPT ![p] = @ + 1]
  /\ UNCHANGED <<raw_data, nav_lines, curr_index, schema, parsed_funds,
                 scheme_type, scheme_sub_type, fund_house, exc, result>>

L114(p) ==
  /\ pc[p] = "L114"
  /\ LET scheme_type_str == Split(curr_line(p), "(")
     IN  IF Len(scheme_type_str) < 2
         THEN /\ RaiseAt(p, "IndexError")
              /\ scheme_type' = [scheme_type EXCEPT ![p] = scheme_type_str[1]]
              /\ UNCHANGED <<scheme_sub_type, parsed_funds>>
         ELSE LET t == scheme_type_str[1]
                  s == DropLast(scheme_type_str[2])
                  d1 == SetDefault(parsed_funds[p], t, EmptyDict)
                  d2 == Put(d1, t, SetDefault(d1[t], s, EmptyDict))
              IN  /\ scheme_type' = [scheme_type EXCEPT ![p] = t]
                  /\ scheme_sub_type' = [scheme_sub_type EXCEPT ![p] = s]
                  /\ parsed_funds' = [parsed_funds EXCEPT ![p] = d2]
                  /\ Goto(p, "L124") /\ exc' = exc
  /\ UNCHANGED <<raw_data, nav_lines, curr_index, schema, scheme_idx,
                 fund_house, result>>

L124(p) == next_line(p, "L124", "L125")

(* the line after a group header must be the separator *)
L125_strict(p) ==
  IF pc[p] = "L125" /\ curr_line(p) # EMPTY_LINE
  THEN /\ RaiseAt(p, "TypeError")
       /\ UNCHANGED <<raw_data, nav_lines, curr_index, schema, parsed_funds,
                      scheme_idx, scheme_type, scheme_sub_type, fund_house,
                      result>>
  ELSE next_line(p, "L125", "L127")

L125(p) == next_line(p, "L125", "L127")

L127(p) ==
  /\ pc[p] = "L127"
  /\ IF NoSchemeClass(curr_line(p))
     THEN Goto(p, "L128") /\ scheme_idx' = scheme_idx
     ELSE Goto(p, "L112") /\ scheme_idx' = [scheme_idx EXCEPT ![p] = @ + 1]
  /\ UNCHANGED <<raw_data, nav_lines, curr_index, schema, parsed_funds,
                 scheme_type, scheme_sub_type, fund_house, exc, result>>

L128(p) ==
  /\ pc[p] = "L128"
  /\ LET t == scheme_type[p]
         s == scheme_sub_type[p]
         d == parsed_funds[p]
         h == curr_line(p)
     IN  /\ fund_house' = [fund_house EXCEPT ![p] = h]
         /\ parsed_funds' = [parsed_funds EXCEPT ![p] =
              Put(d, t, Put(d[t], s, SetDefault(d[t][s], h, <<>>)))]
  /\ Goto(p, "L132")
  /\ UNCHANGED <<raw_data, nav_lines, curr_index, schema, scheme_idx,
                 scheme_type, scheme_sub_type, exc, result>>

L132(p) == next_line(p, "L132", "L133")

L133(p) == next_line(p, "L133", "L135")

L135(p) ==
  /\ pc[p] = "L135"
  /\ IF curr_line(p) # EMPTY_LINE THEN Goto(p, "L136") ELSE Goto(p, "L143")
  /\ UNCHANGED <<raw_data, nav_lines, curr_index, schema, parsed_funds,
                 scheme_idx, scheme_type, scheme_sub_type, fund_house, exc,
                 result>>

(* the loop of line 135 has no final-line test *)
L136_nobreak(p) ==
  /\ pc[p] = "L136"
  /\ Goto(p, "L139")
  /\ UNCHANGED <<raw_data, nav_lines, curr_index, schema, parsed_funds,
                 scheme_idx, scheme_type, scheme_sub_type, fund_house, exc,
                 result>>

(* if curr_index == len(nav_lines) - 1: break *)
L136(p) ==
  /\ pc[p] = "L136"
  /\ IF IsLast(p) THEN Goto(p, "L143") ELSE Goto(p, "L139")
  /\ UNCHANGED <<raw_data, nav_lines, curr_index, schema, parsed_funds,
                 scheme_idx, scheme_type, scheme_sub_type, fund_house, exc,
                 result>>

(* every line of a run is decoded *)
IsNonEmpty_always(line) == TRUE

(* if curr_line() != '' *)
IsNonEmpty(line) == line # <<>>

L139(p) ==
  /\ pc[p] = "L139"
  /\ IF IsNonEmpty(curr_line(p))
     THEN LET r == parse_fund_string(schema[p], curr_line(p))
              t == scheme_type[p]
              s == scheme_sub_type[p]
              h == fund_house[p]
              d == parsed_funds[p]
          IN  IF r.ok
              THEN /\ parsed_funds' = [parsed_funds EXCEPT ![p] =
                        Put(d, t, Put(d[t], s,
                          Put(d[t][s], h, Append(d[t][s][h], r.val))))]
                   /\ Goto(p, "L141") /\ exc' = exc
              ELSE /\ RaiseAt(p, r.exc)
                   /\ parsed_funds' = parsed_funds
     ELSE Goto(p, "L141") /\ UNCHANGED <<parsed_funds, exc>>
  /\ UNCHANGED <<raw_data, nav_lines, curr_index, schema, scheme_idx,
                 scheme_type, scheme_sub_type, fund_house, result>>

L141(p) == next_line(p, "L141", "L135")

(* the separator that closes a block is always stepped over *)
L143_nobreak(p) ==
  /\ pc[p] = "L143"
  /\ Goto(p, "L146") /\ scheme_idx' = scheme_idx
  /\ UNCHANGED <<raw_data, nav_lines, curr_index, schema, parsed_funds,
                 scheme_type, scheme_sub_type, fund_house, exc, result>>

(* if curr_index == len(nav_lines) - 1: break *)
L143(p) ==
  /\ pc[p] = "L143"
  /\ IF IsLast(p)
     THEN Goto(p, "L112") /\ scheme_idx' = [scheme_idx EXCEPT ![p] = @ + 1]
     ELSE Goto(p, "L146") /\ scheme_idx' = scheme_idx
  /\ UNCHANGED <<raw_data, nav_lines, curr_index, schema, parsed_funds,
                 scheme_type, scheme_sub_type, fund_house, exc, result>>

L146(p) == next_line(p, "L146", "L127")

L148(p) ==
  /\ pc[p] = "L148"
  /\ result' = [result EXCEPT ![p] = parsed_funds[p]]
  /\ Goto(p, "done")
  /\ UNCHANGED <<raw_data, nav_lines, curr_index, schema, parsed_funds,
                 scheme_idx, scheme_type, scheme_sub_type, fund_house, exc>>

(* ------------------------------ inputs --------------------------------- *)
(* sep.join(ss) *)
RECURSIVE Join(_, _)
Join(ss, sep) ==
  IF Len(ss) = 0 THEN <<>>
  ELSE IF Len(ss) = 1 THEN ss[1]
  ELSE ss[1] \o <<sep>> \o Join(Tail(ss), sep)

RECURSIVE Concat(_)
Concat(ss) == IF Len(ss) = 0 THEN <<>> ELSE ss[1] \o Concat(Tail(ss))

Rep(x, n) == [i \in 1..n |-> x]

(* the column labels, in the order of the format's schema line *)
Labels == <<"Scheme Code", "ISIN Div Payout/ ISIN Growth",
            "ISIN Div Reinvestment", "Scheme Name", "Net Asset Value", "Date">>

HeaderOf(ls) == Join([i \in 1..Len(ls) |-> <<ls[i]>>], ";")

Perms == {f \in [1..Len(Labels) -> 1..Len(Labels)] :
            \A i, j \in 1..Len(Labels) : i # j => f[i] # f[j]}

H0 == HeaderOf(Labels)
HBad == HeaderOf(<<"Foo", "ISIN Div Payout/ ISIN Growth",
                   "ISIN Div Reinvestment", "Scheme Name", "Net Asset Value",
                   "Date">>)
H5 == HeaderOf(SubSeq(Labels, 1, 5))
H7 == HeaderOf(Labels \o <<"Foo">>)
H7Dup == HeaderOf(Labels \o <<"Date">>)
HDup == HeaderOf(<<"Scheme Code", "ISIN Div Payout/ ISIN Growth",
                   "ISIN Div Reinvestment", "Scheme Name", "Date", "Date">>)

(* a data line of n tokens tag1;tag2;...;tagn *)
DataLine(tag, n) == Join([i \in 1..n |-> <<tag \o ToString(i)>>], ";")

SP == <<" ">>
EM == <<>>
D1 == DataLine("a", 6)
D2 == DataLine("b", 6)
D5 == DataLine("s", 5)
D7 == DataLine("x", 7)
DM == <<"Open Ended", ";", "m2", ";", "m3", ";", "m4", ";", "m5", ";", "m6">>
G1 == <<"Open Ended", "(", "L", ")">>
G2 == <<"Close Ended", "(", "M", ")">>
G3 == <<"Interval Fund Schemes", "(", "L", ")">>
GNoClose == <<"Open Ended", "(", "L", "Q">>
GNoParen == <<"Open Ended">>
O1 == <<"A">>
O2 == <<"B">>

(* one group, one organization, a run of data lines, an ending *)
DataRuns ==
  {Rep(d, n) : d \in {D1, D5, D7}, n \in 0..MaxRun}
    \cup {<<D1, EM, D2>>, <<D1, D2>>, <<D1, G2, D2>>, <<EM, D1>>,
          <<D1, DM>>}

Endings ==
  {<<>>, <<EM>>, <<SP>>, <<SP, EM>>, <<SP, O2, SP, D2, EM>>,
   <<SP, SP, D2, EM>>, <<SP, G3, SP, O1, SP, D2, EM>>}

SingleBlockInputs ==
  {<<h, SP, g, SP, o, SP>> \o ds \o e :
     h \in {H0, HBad}, g \in {G1, GNoClose, GNoParen, O1},
     o \in {O1, EM, SP, G2}, ds \in DataRuns, e \in Endings}

(* a group header, then up to MaxBlocks blocks; block i carries its own    *)
(* data lines; closed tells whether the last block has its separator       *)
BlockKinds == {"G1", "G2", "O0", "O1", "O2"}

BlockLines(kind, i) ==
  CASE kind = "G1" -> <<G1, SP>>
    [] kind = "G2" -> <<G2, SP>>
    [] kind = "O0" -> <<O1, SP>>
    [] kind = "O1" -> <<O1, SP, DataLine("p" \o ToString(i) \o "f", 6)>>
    [] kind = "O2" -> <<O2, SP, DataLine("q" \o ToString(i) \o "f", 6),
                        DataLine("r" \o ToString(i) \o "f", 6)>>

IsOrgKind(kind) == kind \in {"O0", "O1", "O2"}

BlocksInput(g, kinds, closed) ==
  <<H0, SP>> \o BlockLines(g, 0)
    \o Concat([i \in 1..Len(kinds) |->
                 BlockLines(kinds[i], i)
                   \o (IF IsOrgKind(kinds[i]) /\ (i < Len(kinds) \/ closed)
                       THEN <<SP>> ELSE <<>>)])
    \o <<EM>>

KindSeqs == UNION {[1..n -> BlockKinds] : n \in 0..MaxBlocks}

BlockInputs ==
  {BlocksInput(g, ks, c) : g \in {"G1", "G2"}, ks \in KindSeqs, c \in BOOLEAN}

(* every column order of the header, and headers of other shapes *)
HeaderInputs ==
  {<<HeaderOf([i \in 1..Len(Labels) |-> Labels[f[i]]]),
     SP, G1, SP, O1, SP, D1, EM>> : f \in Perms}
    \cup {<<h, SP, G1, SP, O1, SP, d, EM>> :
            h \in {H5, H7, H7Dup, HDup}, d \in {D1, D5, D7}}

(* every truncation of one report *)
SampleReport == <<H0, SP, G1, SP, O1, SP, D1, D2, SP, O2, SP, D2, SP, EM>>

TruncatedInputs == {SubSeq(SampleReport, 1, n) : n \in 0..Len(SampleReport)}

(* any kind of line after the header, a group header, an organization     *)
(* header                                                                  *)
SkipInputs ==
  {<<H0, x0, G1, x1, O1, x2, D1, EM>> :
     x0 \in {SP, EM, D1, O2, G2}, x1 \in {SP, EM, D1, O2, G2},
     x2 \in {SP, EM, D5, O2, G2}}

HeadlessReport == <<H0, SP, O1, SP, D1, SP, EM>>

HeadlessInputs == {SubSeq(HeadlessReport, 1, n) : n \in 0..Len(HeadlessReport)}

Inputs == SingleBlockInputs \cup BlockInputs \cup HeaderInputs
            \cup TruncatedInputs \cup HeadlessInputs \cup SkipInputs

(* --------------------------- specification ----------------------------- *)
InitFrom(inputs) ==
  /\ \E lines \in inputs :
       raw_data = [p \in Procs |->
                     IF p = 1 THEN Join(lines, LINE_BREAK) ELSE <<>>]
  /\ pc = [p \in Procs |-> IF p = 1 THEN "L93" ELSE "idle"]
  /\ nav_lines = [p \in Procs |-> <<>>]
  /\ curr_index = [p \in Procs |-> 0]
  /\ schema = [p \in Procs |-> <<>>]
  /\ parsed_funds = [p \in Procs |-> EmptyDict]
  /\ scheme_idx = [p \in Procs |-> 1]
  /\ scheme_type = [p \in Procs |-> Unbound]
  /\ scheme_sub_type = [p \in Procs |-> Unbound]
  /\ fund_house = [p \in Procs |-> Unbound]
  /\ exc = [p \in Procs |-> "None"]
  /\ result = [p \in Procs |-> EmptyDict]

Init == InitFrom(Inputs)

Next ==
  \E p \in Procs :
    \/ L93(p) \/ L105(p) \/ L106(p) \/ L108(p) \/ L112(p) \/ L114(p)
    \/ L124(p) \/ L125(p) \/ L127(p) \/ L128(p) \/ L132(p) \/ L133(p)
    \/ L135(p) \/ L136(p) \/ L139(p) \/ L141(p) \/ L143(p) \/ L146(p)
    \/ L148(p)

Spec == Init /\ [][Next]_vars

(* the interpreter keeps executing a call that can take a step; the parse  *)
(* is run on every truncation of a report and of a text without a group    *)
(* header                                                                  *)
FairInit == InitFrom(TruncatedInputs \cup HeadlessInputs)

FairSpec == FairInit /\ [][Next]_vars /\ WF_vars(Next)

(* two invocations, each on its own text, their steps interleaved *)
ParInputs ==
  {<<H0, SP, G1, SP, O1, SP, D1, EM>>,
   <<H0, SP, G2, SP, O2, SP, D2, EM, D1, SP, O1, SP, D2, EM>>,
   <<H0, SP, G1, SP, O1, SP, D1, SP, EM>>,
   <<H0, SP, O1, SP, EM>>,
   <<HBad, SP, G1, SP, O1, SP, D1, EM>>,
   <<H0, SP, G3, SP, O2, SP, D5, EM>>,
   <<H0, SP, GNoParen, SP, EM>>}

ParInit ==
  /\ \E l1 \in ParInputs, l2 \in ParInputs :
       raw_data = [p \in Procs |->
                     Join(IF p = 1 THEN l1 ELSE l2, LINE_BREAK)]
  /\ pc = [p \in Procs |-> "L93"]
  /\ nav_lines = [p \in Procs |-> <<>>]
  /\ curr_index = [p \in Procs |-> 0]
  /\ schema = [p \in Procs |-> <<>>]
  /\ parsed_funds = [p \in Procs |-> EmptyDict]
  /\ scheme_idx = [p \in Procs |-> 1]
  /\ scheme_type = [p \in Procs |-> Unbound]
  /\ scheme_sub_type = [p \in Procs |-> Unbound]
  /\ fund_house = [p \in Procs |-> Unbound]
  /\ exc = [p \in Procs |-> "None"]
  /\ result = [p \in Procs |-> EmptyDict]

ParSpec == ParInit /\ [][Next]_vars

TypeOK ==
  \A p \in Procs :
    /\ pc[p] \in {"idle", "L93", "L105", "L106", "L108", "L112", "L114",
                  "L124", "L125", "L127", "L128", "L132", "L133", "L135",
                  "L136", "L139", "L141", "L143", "L146", "L148", "done",
                  "error"}
    /\ exc[p] \in {"None", "IndexError", "KeyError", "TypeError"}
    /\ (pc[p] = "error") = (exc[p] # "None")
    /\ pc[p] \notin {"idle", "L93", "error"} =>
         curr_index[p] \in 0..(Len(nav_lines[p]) - 1)

(* ------------------- the report format, read declaratively ------------- *)
Halted(p) == pc[p] \in {"done", "error"}

Returned(p) == pc[p] = "done"

(* the input of p as lines, from the text itself *)
InputLines(p) == Split(raw_data[p], LINE_BREAK)

HasMarker(line) ==
  \E k \in 1..Len(SCHEME_TYPE_CLASSES) : Contains(line, SCHEME_TYPE_CLASSES[k])

Tokens(line) == Split(line, ";")

(* a header naming each of the six known labels exactly once *)
IsSixLabelHeader(line) ==
  LET ls == Tokens(line)
  IN  /\ Len(ls) = Len(Labels)
      /\ \A i \in 1..Len(Labels) : \E j \in 1..Len(ls) : ls[j] = <<Labels[i]>>

(* "C(S)" with a category marker in C *)
IsGroupHeader(line) ==
  LET ps == Split(line, "(")
  IN  /\ Len(ps) = 2
      /\ HasMarker(ps[1])
      /\ Len(ps[2]) >= 1
      /\ ps[2][Len(ps[2])] = ")"
      /\ ~Contains(DropLast(ps[2]), ")")

CategoryOf(line) == Split(line, "(")[1]

SubCategoryOf(line) == DropLast(Split(line, "(")[2])

IsOrgHeader(line) == line # SP /\ line # EM /\ ~HasMarker(line)

IsDataLine(header, line) ==
  /\ line # SP /\ line # EM /\ ~HasMarker(line)
  /\ Len(Tokens(line)) = Len(Tokens(header))

(* the Record of a data line: the token under each label of the header *)
RecordOf(header, line) ==
  [f \in FundFields |->
     LET i == CHOOSE j \in 1..Len(Tokens(header)) :
                Tokens(header)[j] \in DOMAIN DATACLASS_AMFI_NAMES_TRANSFORMS
                /\ DATACLASS_AMFI_NAMES_TRANSFORMS[Tokens(header)[j]] = f
     IN  Tokens(line)[i]]

RecordsOf(header, rows) == [i \in 1..Len(rows) |-> RecordOf(header, rows[i])]

(* The blocks of a report: lines[i..] read in mode "org" (an organization  *)
(* header, a group header or the end is due) or "data" (inside a run of    *)
(* data lines); t, s are the current category and sub-category.  ending    *)
(* is "closed" when the last block has its single-space separator before   *)
(* the terminator line, "open" when the terminator follows a data line or  *)
(* an organization header's separator directly, "bad" when the lines are   *)
(* not a report.                                                           *)
RECURSIVE ReadBlocks(_, _, _, _, _, _)
ReadBlocks(lines, i, mode, t, s, blocks) ==
  LET bad == [ending |-> "bad", blocks |-> <<>>]
      line == lines[i]
      n == Len(blocks)
  IN  IF i > Len(lines) THEN bad
      ELSE IF i = Len(lines)
      THEN IF line # EM THEN bad
           ELSE [ending |-> IF mode = "org" THEN "closed" ELSE "open",
                 blocks |-> blocks]
      ELSE IF mode = "org"
      THEN IF IsGroupHeader(line) /\ lines[i + 1] = SP
           THEN ReadBlocks(lines, i + 2, "org", CategoryOf(line),
                           SubCategoryOf(line), blocks)
           ELSE IF IsOrgHeader(line) /\ lines[i + 1] = SP
           THEN ReadBlocks(lines, i + 2, "data", t, s,
                  Append(blocks, [t |-> t, s |-> s, h |-> line, rows |-> <<>>]))
           ELSE bad
      ELSE IF line = SP THEN ReadBlocks(lines, i + 1, "org", t, s, blocks)
      ELSE IF line = EM THEN ReadBlocks(lines, i + 1, "data", t, s, blocks)
      ELSE IF IsDataLine(lines[1], line)
      THEN ReadBlocks(lines, i + 1, "data", t, s,
             [blocks EXCEPT ![n].rows = Append(@, line)])
      ELSE bad

ReadReport(lines) ==
  IF /\ Len(lines) >= 5
     /\ IsSixLabelHeader(lines[1])
     /\ lines[2] = SP
     /\ IsGroupHeader(lines[3])
  THEN ReadBlocks(lines, 3, "org", Unbound, Unbound, <<>>)
  ELSE [ending |-> "bad", blocks |-> <<>>]

RECURSIVE SumLen(_)
SumLen(ss) == IF Len(ss) = 0 THEN 0 ELSE Len(ss[1]) + SumLen(Tail(ss))

(* the number of Records held by a hierarchy *)
RECURSIVE SumOver(_, _)
SumOver(S, f) ==
  IF S = {} THEN 0
  ELSE LET x == CHOOSE y \in S : TRUE IN f[x] + SumOver(S \ {x}, f)

OrgTotal(orgs) == SumOver(DOMAIN orgs, [h \in DOMAIN orgs |-> Len(orgs[h])])

SubTotal(subs) == SumOver(DOMAIN subs, [s \in DOMAIN subs |-> OrgTotal(subs[s])])

RecordTotal(d) == SumOver(DOMAIN d, [t \in DOMAIN d |-> SubTotal(d[t])])

Single(k, v) == [x \in {k} |-> v]

(* ------------------------------- C1 ------------------------------------ *)
(* header, blank, one group header, blank, one organization header, blank, *)
(* n >= 1 data lines, a single-space line, the terminator line             *)
IsScenario(lines) ==
  /\ Len(lines) >= 9
  /\ IsSixLabelHeader(lines[1])
  /\ lines[2] = SP
  /\ IsGroupHeader(lines[3])
  /\ lines[4] = SP
  /\ IsOrgHeader(lines[5])
  /\ lines[6] = SP
  /\ \A i \in 7..(Len(lines) - 2) : IsDataLine(lines[1], lines[i])
  /\ lines[Len(lines) - 1] = SP
  /\ lines[Len(lines)] = EM

(* C1: on an input of the scenario's shape the parse returns normally and  *)
(* its result is exactly {C: {S: {O: [the n Records in file order]}}}.     *)
C1_Scenario ==
  \A p \in Procs :
    (Halted(p) /\ IsScenario(InputLines(p))) =>
      LET lines == InputLines(p)
      IN  /\ Returned(p)
          /\ result[p] =
               Single(CategoryOf(lines[3]),
                 Single(SubCategoryOf(lines[3]),
                   Single(lines[5],
                     RecordsOf(lines[1], SubSeq(lines, 7, Len(lines) - 2)))))

(* ------------------------------- C2 ------------------------------------ *)
DataLineCount(lines) ==
  LET bs == ReadReport(lines).blocks
  IN  SumLen([i \in 1..Len(bs) |-> bs[i].rows])

(* C2: on a well-formed input (every block closed by its single-space      *)
(* separator, then the terminator line) the parse returns a hierarchy      *)
(* whose Record lists hold as many Records as the input has non-blank data *)
(* lines.                                                                  *)
C2_RoundTripCount ==
  \A p \in Procs :
    (Halted(p) /\ ReadReport(InputLines(p)).ending = "closed") =>
      /\ Returned(p)
      /\ RecordTotal(result[p]) = DataLineCount(InputLines(p))

(* ------------------------------- C3 ------------------------------------ *)
SameKey(a, b) == a.t = b.t /\ a.s = b.s /\ a.h = b.h

(* the data lines of every block of b's triple, in file order *)
RowsFor(bs, b) ==
  Concat([j \in 1..Len(bs) |-> IF SameKey(bs[j], b) THEN bs[j].rows ELSE <<>>])

IsPrefix(a, b) == Len(a) <= Len(b) /\ SubSeq(b, 1, Len(a)) = a

C3_OneList ==
  \A p \in Procs :
    (Returned(p) /\ ReadReport(InputLines(p)).ending # "bad") =>
      LET lines == InputLines(p)
          bs == ReadReport(lines).blocks
      IN  \A i \in 1..Len(bs) :
            /\ bs[i].t \in DOMAIN result[p]
            /\ bs[i].s \in DOMAIN result[p][bs[i].t]
            /\ bs[i].h \in DOMAIN result[p][bs[i].t][bs[i].s]
            /\ result[p][bs[i].t][bs[i].s][bs[i].h] =
                 RecordsOf(lines[1], RowsFor(bs, bs[i]))

C3_KeptOnReuse ==
  \A p \in Procs :
    \A t \in DOMAIN parsed_funds[p] :
      /\ t \in DOMAIN parsed_funds'[p]
      /\ \A s \in DOMAIN parsed_funds[p][t] :
           /\ s \in DOMAIN parsed_funds'[p][t]
           /\ \A h \in DOMAIN parsed_funds[p][t][s] :
                /\ h \in DOMAIN parsed_funds'[p][t][s]
                /\ IsPrefix(parsed_funds[p][t][s][h], parsed_funds'[p][t][s][h])

(* C3: the returned hierarchy holds, for every (category, sub-category,    *)
(* organization) triple of the input, one list: the Records of all the     *)
(* triple's blocks in file order; and no step of a parse removes a key or  *)
(* changes the Records a key already holds (a list only grows at its end). *)
C3_KeyStability == []C3_OneList /\ [][C3_KeptOnReuse]_vars

(* a parse has returned on an input where a triple has two blocks with     *)
(* data, separated by a block of another triple                            *)
C3_Witness ==
  /\ Returned(1)
  /\ LET bs == ReadReport(InputLines(1)).blocks
     IN  \E i, j, k \in 1..Len(bs) :
           /\ i < j /\ j < k
           /\ SameKey(bs[i], bs[k]) /\ ~SameKey(bs[i], bs[j])
           /\ bs[i].rows # <<>> /\ bs[k].rows # <<>>
           /\ bs[i].rows # bs[k].rows

(* ------------------------------- C4 ------------------------------------ *)
(* C4: under a header that is a permutation of the six labels, the Record  *)
(* appended for a data line holds, in the canonical field of the header's  *)
(* i-th label, the i-th token of the line, for every i.                    *)
C4_SchemaFidelity ==
  [][\A p \in Procs :
       (/\ pc[p] = "L139" /\ pc'[p] = "L141"
        /\ curr_line(p) # EM
        /\ IsSixLabelHeader(nav_lines[p][1])) =>
         LET old == parsed_funds[p][scheme_type[p]][scheme_sub_type[p]][fund_house[p]]
             new == parsed_funds'[p][scheme_type[p]][scheme_sub_type[p]][fund_house[p]]
             hdr == Tokens(nav_lines[p][1])
         IN  /\ Len(new) = Len(old) + 1
             /\ \A i \in 1..Len(hdr) :
                  new[Len(new)][DATACLASS_AMFI_NAMES_TRANSFORMS[hdr[i]]]
                    = Tokens(curr_line(p))[i]]_vars

(* a Record has been appended under a header whose column order is not the *)
(* order of the format's schema line                                       *)
C4_Witness ==
  /\ pc[1] = "L141"
  /\ IsSixLabelHeader(nav_lines[1][1])
  /\ nav_lines[1][1] # H0
  /\ parsed_funds[1][scheme_type[1]][scheme_sub_type[1]][fund_house[1]] # <<>>

(* ------------------------------- C5 ------------------------------------ *)
(* C5: every parse that is called eventually returns or raises.            *)
C5_Terminates == \A p \in Procs : (pc[p] = "L93") ~> Halted(p)

(* ------------------------------- C6 ------------------------------------ *)
CurrentList(p) ==
  parsed_funds[p][scheme_type[p]][scheme_sub_type[p]][fund_house[p]]

(* C6: decoding a data line that has one token fewer than the schema has   *)
(* names raises an error and builds no Record.                             *)
C6_ShortLineRejected ==
  [][\A p \in Procs :
       (/\ pc[p] = "L139"
        /\ curr_line(p) # EM
        /\ Len(Tokens(curr_line(p))) = Len(schema[p]) - 1) =>
         (pc'[p] = "error" /\ parsed_funds'[p] = parsed_funds[p])]_vars

(* ------------------------------- C7 ------------------------------------ *)
(* C7: a line with a category marker and an opening parenthesis but no     *)
(* closing parenthesis, met as a group header, raises an error and creates *)
(* no key.                                                                 *)
C7_UnclosedGroupRejected ==
  [][\A p \in Procs :
       (/\ pc[p] = "L114"
        /\ Contains(curr_line(p), "(")
        /\ ~Contains(curr_line(p), ")")) =>
         (pc'[p] = "error" /\ parsed_funds'[p] = parsed_funds[p])]_vars

(* ------------------------------- C8 ------------------------------------ *)
(* C8: decoding a data line whose token count differs from the schema      *)
(* length, extra tokens included, raises an error and appends no Record.   *)
C8_TokenCountExact ==
  [][\A p \in Procs :
       (/\ pc[p] = "L139"
        /\ curr_line(p) # EM
        /\ Len(Tokens(curr_line(p))) # Len(schema[p])) =>
         (pc'[p] = "error" /\ parsed_funds'[p] = parsed_funds[p])]_vars

(* ------------------------------- C9 ------------------------------------ *)
HasUnknownLabel(header) ==
  \E i \in 1..Len(Tokens(header)) :
    Tokens(header)[i] \notin DOMAIN DATACLASS_AMFI_NAMES_TRANSFORMS

(* C9: a parse whose header line has a label outside the lookup table      *)
(* fails, whatever follows the header: it never returns a hierarchy.       *)
C9_UnknownLabelRejected ==
  \A p \in Procs :
    (Returned(p) /\ Len(nav_lines[p]) >= 1) => ~HasUnknownLabel(nav_lines[p][1])

(* ------------------------------- C10 ----------------------------------- *)
(* C10: in a run of data lines, an empty line that is not the final line   *)
(* is passed over: no Record, no error, the parse stays in the run (the    *)
(* cursor moves to the next line of the same organization); and the run of *)
(* a line that is not the final line ends only on a single-space line.     *)
C10_StrayBlank ==
  [][\A p \in Procs :
       /\ (pc[p] = "L139" /\ curr_line(p) = EM) =>
            /\ pc'[p] = "L141"
            /\ parsed_funds'[p] = parsed_funds[p]
            /\ fund_house'[p] = fund_house[p]
            /\ exc'[p] = "None"
       /\ (pc[p] \in {"L135", "L136", "L139", "L141"} /\ pc'[p] = "L143") =>
            (curr_line(p) = SP \/ IsLast(p))]_vars

(* the data line after a stray empty line has just been appended to the    *)
(* list that already ends with the data line before the empty line         *)
C10_Witness ==
  /\ pc[1] = "L141"
  /\ curr_index[1] >= 2
  /\ nav_lines[1][curr_index[1]] = EM
  /\ IsSixLabelHeader(nav_lines[1][1])
  /\ IsDataLine(nav_lines[1][1], nav_lines[1][curr_index[1] - 1])
  /\ IsDataLine(nav_lines[1][1], curr_line(1))
  /\ LET l == CurrentList(1)
     IN  /\ Len(l) >= 2
         /\ l[Len(l) - 1] = RecordOf(nav_lines[1][1], nav_lines[1][curr_index[1] - 1])
         /\ l[Len(l)] = RecordOf(nav_lines[1][1], curr_line(1))

(* ------------------------------- C11 ----------------------------------- *)
(* What one call of parse_nav_file_lines on a text yields when nothing     *)
(* else runs: the loops of lines 108-146 followed to their end.  i is the  *)
(* position of the current line (from 1), d the hierarchy so far.  The     *)
(* outcome "loop" is the iteration of line 108 that matches no scheme      *)
(* class and so repeats itself.                                            *)
Yield(kind, e, d) == [kind |-> kind, exc |-> e, val |-> d]

Going(i, d) == [kind |-> "going", i |-> i, val |-> d]

RECURSIVE RunData(_, _, _, _, _, _, _)
RunData(lines, sch, i, d, t, s, h) ==
  IF lines[i] = EMPTY_LINE \/ i = Len(lines) THEN Going(i, d)
  ELSE IF lines[i] = <<>> THEN RunData(lines, sch, i + 1, d, t, s, h)
  ELSE LET r == parse_fund_string(sch, lines[i])
       IN  IF ~r.ok THEN Yield("error", r.exc, EmptyDict)
           ELSE RunData(lines, sch, i + 1,
                  Put(d, t, Put(d[t], s, Put(d[t][s], h,
                    Append(d[t][s][h], r.val)))), t, s, h)

RECURSIVE RunOrgs(_, _, _, _, _, _)
RunOrgs(lines, sch, i, d, t, s) ==
  IF ~NoSchemeClass(lines[i]) THEN Going(i, d)
  ELSE LET h == lines[i]
           d1 == Put(d, t, Put(d[t], s, SetDefault(d[t][s], h, <<>>)))
       IN  IF i + 2 > Len(lines) THEN Yield("error", "IndexError", EmptyDict)
           ELSE LET r == RunData(lines, sch, i + 2, d1, t, s, h)
                IN  IF r.kind # "going" THEN r
                    ELSE IF r.i = Len(lines) THEN r
                    ELSE RunOrgs(lines, sch, r.i + 1, r.val, t, s)

RunGroup(lines, sch, i, d) ==
  LET ps == Split(lines[i], "(")
  IN  IF Len(ps) < 2 \/ i + 2 > Len(lines)
      THEN Yield("error", "IndexError", EmptyDict)
      ELSE LET t == ps[1]
               s == DropLast(ps[2])
               d1 == SetDefault(d, t, EmptyDict)
               d2 == Put(d1, t, SetDefault(d1[t], s, EmptyDict))
           IN  RunOrgs(lines, sch, i + 2, d2, t, s)

RECURSIVE RunFor(_, _, _, _, _, _)
RunFor(lines, sch, i, k, d, moved) ==
  IF k > Len(SCHEME_TYPE_CLASSES)
  THEN IF i = Len(lines) THEN Yield("done", "None", d)
       ELSE IF ~moved THEN Yield("loop", "None", EmptyDict)
       ELSE RunFor(lines, sch, i, 1, d, FALSE)
  ELSE IF ~Contains(lines[i], SCHEME_TYPE_CLASSES[k])
       THEN RunFor(lines, sch, i, k + 1, d, moved)
       ELSE LET r == RunGroup(lines, sch, i, d)
            IN  IF r.kind # "going" THEN r
                ELSE RunFor(lines, sch, r.i, k + 1, r.val, TRUE)

Alone(text) ==
  LET lines == Split(text, LINE_BREAK)
  IN  IF Len(lines) < 3 THEN Yield("error", "IndexError", EmptyDict)
      ELSE IF Len(lines) = 3 THEN Yield("done", "None", EmptyDict)
      ELSE RunFor(lines, Split(lines[1], ";"), 3, 1, EmptyDict, FALSE)

Outcome(p) ==
  IF Returned(p) THEN Yield("done", "None", result[p])
  ELSE Yield("error", exc[p], EmptyDict)

Locals(p) ==
  <<pc[p], raw_data[p], nav_lines[p], curr_index[p], schema[p],
    parsed_funds[p], scheme_idx[p], scheme_type[p], scheme_sub_type[p],
    fund_house[p], exc[p], result[p]>>

C11_SameAsAlone == \A p \in Procs : Halted(p) => Outcome(p) = Alone(raw_data[p])

C11_OwnLocals ==
  \A p, q \in Procs :
    (p # q /\ Locals(p)' # Locals(p)) => Locals(q)' = Locals(q)

(* C11: with the steps of two parses interleaved in any order, a parse     *)
(* that halts has the hierarchy or the error it yields when run alone on   *)
(* its text, and a step of one parse changes no local of the other.        *)
C11_Independent == []C11_SameAsAlone /\ [][C11_OwnLocals]_vars

(* the first parse has returned a hierarchy with Records while the second,  *)
(* on another text, stands in the middle of a run of data lines with its   *)
(* own hierarchy                                                           *)
C11_Witness ==
  /\ Returned(1) /\ RecordTotal(result[1]) >= 1
  /\ raw_data[1] # raw_data[2]
  /\ pc[2] = "L141"
  /\ RecordTotal(parsed_funds[2]) >= 1
  /\ parsed_funds[2] # parsed_funds[1]

(* ------------------------------- C12 ----------------------------------- *)
C12_AtFinalLine ==
  \A p \in Procs :
    (pc[p] = "L127" /\ IsLast(p)) =>
      /\ pc'[p] = "L112"
      /\ parsed_funds'[p] = parsed_funds[p]
      /\ curr_index'[p] = curr_index[p]

(* C12: whenever the cursor stands on the final line at the head of the    *)
(* organization-header loop, the loop exits: the step creates no bucket    *)
(* for that line, and no line of the loop's body is entered, so the cursor *)
(* is not advanced past the end.                                           *)
C12_FinalLineNotOrg ==
  /\ [][C12_AtFinalLine]_vars
  /\ [](\A p \in Procs : pc[p] \in {"L128", "L132", "L133"} => ~IsLast(p))

(* ------------------------------- C13 ----------------------------------- *)
(* C13 as stated: a line containing a category marker is neither taken as  *)
(* an organization key (line 128) nor handed to the decoder (line 139),    *)
(* at the organization-header position and inside a run of data lines.     *)
C13_MarkerNeverKeyNorDecoded ==
  \A p \in Procs :
    pc[p] \in {"L128", "L139"} => ~HasMarker(curr_line(p))

C13_NoMarkerKey ==
  \A p \in Procs :
    /\ pc[p] = "L128" => ~HasMarker(curr_line(p))
    /\ \A t \in DOMAIN parsed_funds[p] :
         \A s \in DOMAIN parsed_funds[p][t] :
           \A h \in DOMAIN parsed_funds[p][t][s] : ~HasMarker(h)

C13_BoundaryAtOrgPosition ==
  \A p \in Procs :
    (pc[p] = "L127" /\ HasMarker(curr_line(p))) =>
      /\ pc'[p] = "L112"
      /\ parsed_funds'[p] = parsed_funds[p]
      /\ curr_index'[p] = curr_index[p]

(* C13: a line containing a category marker that is met where an           *)
(* organization header is expected ends the organization loop with the     *)
(* cursor still on it and the hierarchy untouched, and no organization key *)
(* of the hierarchy ever contains a category marker.                       *)
C13_GroupHeaderPriority ==
  []C13_NoMarkerKey /\ [][C13_BoundaryAtOrgPosition]_vars

(* a second group header, met where an organization header was expected    *)
(* after a block with Records, is being processed as a group header        *)
C13_Witness ==
  /\ pc[1] = "L114"
  /\ curr_index[1] >= 8
  /\ RecordTotal(parsed_funds[1]) >= 1
  /\ scheme_type[1] # Unbound

(* ------------------------------- C14 ----------------------------------- *)
(* the text without its final line *)
Front(lines) == SubSeq(lines, 1, Len(lines) - 1)

(* a report that ends inside an organization block: the last data line is  *)
(* followed directly by the terminator                                     *)
EndsInsideBlock(lines) ==
  /\ ReadReport(lines).ending = "open"
  /\ IsDataLine(lines[1], lines[Len(lines) - 1])

(* the hierarchy holds exactly the blocks bs: every Record list is that of *)
(* a block's triple and every organization key is that of a block          *)
HoldsExactly(d, header, bs) ==
  /\ \A i \in 1..Len(bs) :
       /\ bs[i].t \in DOMAIN d
       /\ bs[i].s \in DOMAIN d[bs[i].t]
       /\ bs[i].h \in DOMAIN d[bs[i].t][bs[i].s]
       /\ d[bs[i].t][bs[i].s][bs[i].h] = RecordsOf(header, RowsFor(bs, bs[i]))
  /\ \A t \in DOMAIN d : \A s \in DOMAIN d[t] : \A h \in DOMAIN d[t][s] :
       \E i \in 1..Len(bs) : bs[i].t = t /\ bs[i].s = s /\ bs[i].h = h

(* C14: on an input that ends inside an organization block (last data      *)
(* line, terminator, nothing else) the parse runs to its end and returns   *)
(* normally, and the returned hierarchy holds every data line of the last  *)
(* block (of every block) and no organization key beyond the input's       *)
(* organization headers.                                                   *)
C14_CleanFinish ==
  \A p \in Procs :
    (raw_data[p] # <<>> /\ EndsInsideBlock(InputLines(p))) =>
      LET lines == InputLines(p)
          bs == ReadReport(lines).blocks
      IN  /\ Alone(raw_data[p]).kind = "done"
          /\ Halted(p) =>
                /\ Returned(p)
                /\ HoldsExactly(result[p], lines[1], bs)
                /\ Len(result[p][bs[Len(bs)].t][bs[Len(bs)].s][bs[Len(bs)].h])
                     >= Len(bs[Len(bs)].rows)

(* a parse has returned on a report of two blocks that ends right after    *)
(* the second block's two data lines                                       *)
C14_Witness ==
  /\ Returned(1)
  /\ EndsInsideBlock(InputLines(1))
  /\ Len(ReadReport(InputLines(1)).blocks) = 2
  /\ Len(ReadReport(InputLines(1)).blocks[2].rows) = 2
  /\ RecordTotal(result[1]) >= 3

(* ------------------------------- C15 ----------------------------------- *)
(* the last line is a data line of an organization block and no terminator *)
(* follows it                                                              *)
EndsOnDataLine(lines) ==
  /\ Len(lines) >= 7
  /\ IsDataLine(lines[1], lines[Len(lines)])
  /\ ReadReport(Append(Front(lines), EM)).ending = "open"

C15_LastLineDropped ==
  \A p \in Procs :
    (raw_data[p] # <<>> /\ EndsOnDataLine(InputLines(p))) =>
      LET lines == InputLines(p)
          bs == ReadReport(Append(Front(lines), EM)).blocks
      IN  /\ Alone(raw_data[p]).kind = "done"
          /\ Halted(p) =>
                /\ Returned(p)
                /\ HoldsExactly(result[p], lines[1], bs)

(* C15: the final element of the line sequence is never handed to the      *)
(* decoder; on an input whose last line is a data line of an organization  *)
(* block with no terminator after it, the parse returns normally and the   *)
(* hierarchy holds the Records of the lines before it only.                *)
C15_FinalNeverDecoded ==
  /\ C15_LastLineDropped
  /\ \A p \in Procs : pc[p] = "L139" => ~IsLast(p)

(* a parse has returned, with one Record, on an input whose block has two  *)
(* data lines, the second of them the last line                            *)
C15_Witness ==
  /\ Returned(1)
  /\ EndsOnDataLine(InputLines(1))
  /\ IsDataLine(InputLines(1)[1], InputLines(1)[Len(InputLines(1)) - 1])
  /\ RecordTotal(result[1]) = 1

(* ------------------------------- C16 ----------------------------------- *)
(* the cursor stands on the line after the header, after a group header or *)
(* after an organization header: the second next_line() of a pair is next  *)
OnSkippedLine(p) == pc[p] \in {"L106", "L125", "L133"}

AfterSkip(l) == IF l = "L106" THEN "L108" ELSE IF l = "L125" THEN "L127" ELSE "L135"

(* the text with line i replaced by the single-space separator *)
Blanked(lines, i) == Join([lines EXCEPT ![i] = SP], LINE_BREAK)

C16_SameAsSeparator ==
  \A p \in Procs :
    OnSkippedLine(p) =>
      Alone(raw_data[p]) = Alone(Blanked(nav_lines[p], curr_index[p] + 1))

C16_SteppedOver ==
  \A p \in Procs :
    OnSkippedLine(p) =>
      /\ curr_index'[p] = curr_index[p] + 1
      /\ parsed_funds'[p] = parsed_funds[p]
      /\ <<scheme_type'[p], scheme_sub_type'[p], fund_house'[p]>> =
           <<scheme_type[p], scheme_sub_type[p], fund_house[p]>>
      /\ IF IsLast(p)
         THEN pc'[p] = "error" /\ exc'[p] = "IndexError"
         ELSE pc'[p] = AfterSkip(pc[p]) /\ exc'[p] = "None"

(* C16: the line after the header, after each group header and after each  *)
(* organization header is stepped over whatever it holds: the step decodes *)
(* nothing, adds no key and raises nothing unless no line follows, and the *)
(* outcome of the parse is the outcome on the text with that line replaced *)
(* by the single-space separator.                                          *)
C16_SkippedUninspected == []C16_SameAsSeparator /\ [][C16_SteppedOver]_vars

(* a parse has returned a Record on a text whose three skipped lines are   *)
(* a data line, a line with a category marker and an organization name     *)
C16_Witness ==
  /\ Returned(1)
  /\ Len(nav_lines[1]) = 8
  /\ nav_lines[1][2] = D1
  /\ nav_lines[1][4] = G2
  /\ nav_lines[1][6] = O2
  /\ RecordTotal(result[1]) = 1

(* ------------------------------- C17 ----------------------------------- *)
(* C17: in a returned hierarchy no organization key is the empty string or *)
(* the single-space separator line.                                        *)
C17_NoBlankOrganization ==
  \A p \in Procs :
    Returned(p) =>
      \A t \in DOMAIN result[p] : \A s \in DOMAIN result[p][t] :
        \A h \in DOMAIN result[p][t][s] : h # EM /\ h # SP

(* ------------------------------- C18 ----------------------------------- *)
(* the statements that are a call of next_line() *)
AtNextLine(p) ==
  pc[p] \in {"L105", "L106", "L124", "L125", "L132", "L133", "L141", "L146"}

(* the statements that take the current line as a group header, as an      *)
(* organization header, as a data line                                     *)
Classifies(p) ==
  \/ pc[p] \in {"L114", "L128"}
  \/ pc[p] = "L139" /\ IsNonEmpty(curr_line(p))

C18_Forward ==
  \A p \in Procs :
    /\ curr_index'[p] = curr_index[p] + (IF AtNextLine(p) /\ pc'[p] # pc[p] THEN 1 ELSE 0)
    /\ pc[p] # "L93" => nav_lines'[p] = nav_lines[p]
    /\ (Classifies(p) /\ pc'[p] # pc[p]) =>
         \/ pc'[p] = "error"
         \/ pc'[p] \in {"L124", "L132", "L141"} /\ ~Classifies(p)'

(* C18: every step leaves the cursor where it is or moves it forward by    *)
(* one line, the line sequence is not changed once split, and a statement  *)
(* that takes the current line as a group header, an organization header   *)
(* or a data line is followed by an error or a call of next_line(), so     *)
(* the cursor has left a line before the next line is taken as anything.   *)
C18_ForwardOnly ==
  /\ [][C18_Forward]_vars
  /\ [](\A p \in Procs : nav_lines[p] # <<>> => curr_index[p] <= Len(nav_lines[p]))

(* a parse has returned with the cursor on the last of at least twelve     *)
(* lines, having taken lines as group header, organization headers and     *)
(* data lines                                                              *)
C18_Witness ==
  /\ Returned(1)
  /\ Len(nav_lines[1]) >= 12
  /\ curr_index[1] = Len(nav_lines[1]) - 1
  /\ RecordTotal(result[1]) >= 2

====
